---------------------------- MODULE Spec2Model ----------------------------
(***************************************************************************)
(* A model of the StreamLit-AI-Agent backend: the ReasoningAgent router    *)
(* (agent.py), its tools (tools.py: FactsStore, calculator, clock) and the *)
(* way server.py shares one agent between requests.                        *)
(*                                                                         *)
(* Text is a sequence of tokens.  A token is an atomic piece of text (one  *)
(* character such as " " or "=", or one whole word such as "remember");    *)
(* the regular expressions of agent.py are operators over such sequences.  *)
(***************************************************************************)
EXTENDS Integers, Sequences, FiniteSets, TLC

VARIABLES
    facts,      \* FactsStore._facts of the shared agent: normalised key -> value
    req,        \* the request chat() last served: user, history, delegate, calc
    reply,      \* what chat() returned for it (AgentReply, and the rule it took)
    call,       \* SpecFacts: the FactsStore call last made: op, key, value
    ret,        \* SpecFacts: the ToolResult that call returned
    lastRaw,    \* SpecFacts: per normalised key, the value last passed to remember
    stack,      \* SpecCalc: the _eval calls in progress, innermost last
    mode,       \* SpecCalc: where calculator() stands
    val,        \* SpecCalc: what the root _eval call returned or raised
    cres,       \* SpecCalc: the ToolResult calculator() returned
    pure,       \* SpecCalc: every node visited so far is a whitelisted construct
    divz,       \* SpecCalc: a /, % or // was applied to a zero divisor
    pc,         \* SpecConc: each request thread's position
    targ,       \* SpecConc: each request thread's operation and arguments
    tres,       \* SpecConc: each request thread's ToolResult
    seen,       \* SpecConc: per thread, what a sequential store answered its recall
    stored      \* SpecConc: the store the writes so far leave, applied in their order

vars == <<facts, req, reply, call, ret, lastRaw, stack, mode, val, cres, pure,
          divz, pc, targ, tres, seen, stored>>

chatVars == <<facts, req, reply>>
factsVars == <<call, ret, lastRaw>>
calcVars == <<stack, mode, val, cres, pure, divz>>
concVars == <<pc, targ, tres, seen, stored>>

-----------------------------------------------------------------------------
(* Bounds of the model. *)

\* length, in tokens, up to which SpecRoute submits every utterance
MaxLen == 4
\* longest raw key or value, in tokens, passed to the store
MaxStr == 1
\* deepest nesting of _eval calls
MaxDepth == 2
\* longest history, in turns, that SpecFollow submits
MaxHist == 2
\* number of requests served concurrently in SpecConc
NThreads == 2

-----------------------------------------------------------------------------
(* Text. *)

None == [some |-> FALSE, s |-> <<>>]
Some(s) == [some |-> TRUE, s |-> s]
\* Python truthiness of an Optional[str]
Truthy(x) == x.some /\ x.s # <<>>

\* the tokens \s matches
Spaces == {" "}
\* the tokens made of \w characters only (letters, digits, underscore)
NonWordTokens == {" ", "=", ".", "+", "-", "*", "/", "(", ")", "%"}
IsWordTok(c) == c \notin NonWordTokens

\* str.lower() / re.I on one token
Lower(c) ==
    CASE c = "Hi" -> "hi"
      [] c = "Time" -> "time"
      [] c = "Recall" -> "recall"
      [] c = "K" -> "k"
      [] OTHER -> c

LowerStr(s) == [i \in DOMAIN s |-> Lower(s[i])]

SetMin(S) == CHOOSE x \in S : \A y \in S : x <= y
SetMax(S) == CHOOSE x \in S : \A y \in S : x >= y

\* str.strip()
Strip(s) ==
    LET idx == {i \in 1..Len(s) : s[i] \notin Spaces}
    IN  IF idx = {} THEN <<>> ELSE SubSeq(s, SetMin(idx), SetMax(idx))

\* the first position at or after i that holds no space (Len(s)+1 when none)
SkipSpaces(s, i) ==
    LET idx == {j \in i..Len(s) : s[j] \notin Spaces}
    IN  IF idx = {} THEN Len(s) + 1 ELSE SetMin(idx)

\* \b between positions i and i+1 of s (0 and Len(s)+1 are outside the text)
WordAt(s, i) == i >= 1 /\ i <= Len(s) /\ IsWordTok(s[i])
Boundary(s, i) == WordAt(s, i) # WordAt(s, i + 1)

\* all sequences over S of length at most n
RECURSIVE SeqsUpTo(_, _)
SeqsUpTo(S, n) ==
    IF n = 0 THEN {<<>>}
    ELSE LET shorter == SeqsUpTo(S, n - 1)
         IN  shorter \cup {Append(s, c) : s \in shorter, c \in S}


-----------------------------------------------------------------------------
(* tools.py: trace objects, FactsStore, calculator(), clock(). *)

ToolEvent(name, input, ok, output) ==
    [name |-> name, input |-> input, ok |-> ok, output |-> output]

ToolResult(ok, content, event) ==
    [ok |-> ok, content |-> content, event |-> event]

NoResult == ToolResult(FALSE, <<>>, ToolEvent("none", <<>>, FALSE, <<>>))

NotSavedText == <<"I don't have that saved yet.">>

\* key.strip().lower()
NormKey(key) == LowerStr(Strip(key))

\* a store that rebuilds the dict from the one item, dropping the others
dict_replace(f, k, v) == [x \in {k} |-> v]

\* self._facts[k] = v
dict_setitem(f, k, v) == [x \in DOMAIN f \cup {k} |-> IF x = k THEN v ELSE f[x]]

\* remember() storing under the stripped key without lowering it
remember_keeps_case(f, key, value) ==
    LET k == Strip(key)
        v == Strip(value)
    IN  [facts  |-> dict_setitem(f, k, v),
         result |-> ToolResult(TRUE, <<"Noted.">>,
                       ToolEvent("facts.remember", k \o <<"=">> \o v, TRUE, <<"Saved.">>))]

\* FactsStore.remember: the store it leaves and the ToolResult it returns
remember(f, key, value) ==
    LET k == NormKey(key)
        v == Strip(value)
    IN  [facts  |-> dict_setitem(f, k, v),
         result |-> ToolResult(TRUE, <<"Noted.">>,
                       ToolEvent("facts.remember", k \o <<"=">> \o v, TRUE, <<"Saved.">>))]

\* FactsStore.recall
recall(f, key) ==
    LET k == NormKey(key)
    IN  IF k \notin DOMAIN f
        THEN ToolResult(FALSE, NotSavedText,
                 ToolEvent("facts.recall", k, FALSE, <<"Not found.">>))
        ELSE ToolResult(TRUE, f[k], ToolEvent("facts.recall", k, TRUE, f[k]))

SorryText == <<"Sorry, I couldn't compute that.">>

\* calculator(): e is how _eval(ast.parse(expr).body) ended, a value's text or
\* an exception's message
calculator(expr, e) ==
    IF ~e.raised
    THEN ToolResult(TRUE, e.text, ToolEvent("calculator", expr, TRUE, e.text))
    ELSE ToolResult(FALSE, SorryText, ToolEvent("calculator", expr, FALSE, e.text))

\* datetime.now().strftime("%Y-%m-%d %H:%M:%S")
NowText == <<"2026-01-01 12:00:00">>

clock == ToolResult(TRUE, NowText, ToolEvent("clock", <<>>, TRUE, NowText))

-----------------------------------------------------------------------------
(* tools.py: _eval, one call at a time.  A float is modelled by its class:
   zero, a finite non-zero number, an infinity, a NaN, or a complex number
   (what ** gives for a negative base and a fractional exponent). *)

ValueClasses == {"zero", "fin", "inf", "nan", "cplx"}
Exceptions == {"ZeroDivisionError", "OverflowError", "TypeError"}

\* str(value), line 71
StrOf(v) ==
    CASE v = "zero" -> <<"0.0">>
      [] v = "fin" -> <<"2.0">>
      [] v = "inf" -> <<"inf">>
      [] v = "nan" -> <<"nan">>
      [] v = "cplx" -> <<"(1+2j)">>

\* operator.add and operator.sub on floats: no exception, overflow gives inf
AddSub(a, b) ==
    IF "cplx" \in {a, b} THEN {"cplx"}
    ELSE IF "nan" \in {a, b} THEN {"nan"}
    ELSE IF a = "inf" /\ b = "inf" THEN {"inf", "nan"}
    ELSE IF "inf" \in {a, b} THEN {"inf"}
    ELSE IF a = "fin" /\ b = "fin" THEN {"fin", "inf", "zero"}
    ELSE IF "fin" \in {a, b} THEN {"fin"}
    ELSE {"zero"}

\* operator.mul
Mult(a, b) ==
    IF "cplx" \in {a, b} THEN {"cplx"}
    ELSE IF "nan" \in {a, b} THEN {"nan"}
    ELSE IF {a, b} = {"inf", "zero"} THEN {"nan"}
    ELSE IF "inf" \in {a, b} THEN {"inf"}
    ELSE IF "zero" \in {a, b} THEN {"zero"}
    ELSE {"fin", "inf", "zero"}

\* a division whose zero divisor gives an infinity or a NaN, as IEEE 754 does
DivIeee(a, b) ==
    IF b = "zero" THEN (IF a \in {"zero", "nan"} THEN {"nan"} ELSE {"inf"})
    ELSE IF "cplx" \in {a, b} THEN {"cplx"}
    ELSE IF "nan" \in {a, b} THEN {"nan"}
    ELSE IF a = "inf" THEN (IF b = "inf" THEN {"nan"} ELSE {"inf"})
    ELSE IF b = "inf" \/ a = "zero" THEN {"zero"}
    ELSE {"fin", "inf", "zero"}

\* operator.truediv: a zero divisor raises (a complex divisor may be zero)
Div(a, b) ==
    IF b = "zero" THEN {"ZeroDivisionError"}
    ELSE IF b = "cplx" THEN {"cplx", "ZeroDivisionError"}
    ELSE IF a = "cplx" THEN {"cplx"}
    ELSE IF "nan" \in {a, b} THEN {"nan"}
    ELSE IF a = "inf" THEN (IF b = "inf" THEN {"nan"} ELSE {"inf"})
    ELSE IF b = "inf" \/ a = "zero" THEN {"zero"}
    ELSE {"fin", "inf", "zero"}

\* operator.mod: not defined on complex numbers
Mod(a, b) ==
    IF "cplx" \in {a, b} THEN {"TypeError"}
    ELSE IF b = "zero" THEN {"ZeroDivisionError"}
    ELSE IF "nan" \in {a, b} \/ a = "inf" THEN {"nan"}
    ELSE IF a = "zero" THEN {"zero"}
    ELSE IF b = "inf" THEN {"fin", "inf"}
    ELSE {"fin", "zero"}

\* operator.floordiv: not defined on complex numbers
FloorDiv(a, b) ==
    IF "cplx" \in {a, b} THEN {"TypeError"}
    ELSE IF b = "zero" THEN {"ZeroDivisionError"}
    ELSE IF "nan" \in {a, b} \/ a = "inf" THEN {"nan"}
    ELSE IF a = "zero" THEN {"zero"}
    ELSE IF b = "inf" THEN {"fin", "zero"}
    ELSE {"fin", "inf", "zero"}

\* operator.pow: x ** 0 is 1; zero to a negative power and a result too large
\* raise; a negative base with a fractional exponent gives a complex number
Pow(a, b) ==
    IF b = "zero" THEN (IF a = "cplx" THEN {"cplx"} ELSE {"fin"})
    ELSE IF a = "cplx"
    THEN CASE b = "nan" -> {"cplx"}
           [] b = "inf" -> {"cplx", "ZeroDivisionError"}
           [] OTHER -> {"cplx", "ZeroDivisionError", "OverflowError"}
    ELSE IF b = "cplx"
    THEN CASE a = "nan" -> {"cplx"}
           [] a = "zero" -> {"cplx", "ZeroDivisionError"}
           [] OTHER -> {"cplx", "ZeroDivisionError", "OverflowError"}
    ELSE IF a = "nan" THEN {"nan"}
    ELSE IF a = "zero"
    THEN CASE b = "fin" -> {"zero", "ZeroDivisionError"}
           [] b = "inf" -> {"zero", "inf"}
           [] b = "nan" -> {"nan"}
    ELSE IF a = "inf" THEN (IF b = "nan" THEN {"nan"} ELSE {"inf", "zero"})
    ELSE CASE b = "fin" -> {"fin", "zero", "cplx", "OverflowError"}
           [] b = "inf" -> {"fin", "inf", "zero"}
           [] b = "nan" -> {"fin", "nan"}

BinaryAllowed == {"Add", "Sub", "Mult", "Div", "Pow", "Mod", "FloorDiv"}
Dividing == {"Div", "Mod", "FloorDiv"}

\* the table _ALLOWED, keys and functions; USub is its one unary entry
_ALLOWED == BinaryAllowed \cup {"USub"}

\* _ALLOWED[op] applied with every division following IEEE 754
ApplyIeee(op, a, b) ==
    CASE op \in {"Add", "Sub"} -> AddSub(a, b)
      [] op = "Mult" -> Mult(a, b)
      [] op \in Dividing -> DivIeee(a, b)
      [] op = "Pow" -> Pow(a, b)

\* _ALLOWED[op](left, right), line 60: the values or exceptions it can give
Apply(op, a, b) ==
    CASE op \in {"Add", "Sub"} -> AddSub(a, b)
      [] op = "Mult" -> Mult(a, b)
      [] op = "Div" -> Div(a, b)
      [] op = "Mod" -> Mod(a, b)
      [] op = "FloorDiv" -> FloorDiv(a, b)
      [] op = "Pow" -> Pow(a, b)

\* operator.neg, line 65
Neg(a) == a

-----------------------------------------------------------------------------
(* agent.py: the patterns of ReasoningAgent.chat. *)

GreetWords == {"hi", "hello", "hey", "hola", "namaste", "good"}
DayParts == {"morning", "afternoon", "evening"}
WriteLeads == {"remember", "save"}
\* the read rule's lead-ins with the write rule's word copied in
ReadLeadsWithRemember == {"recall", "remember", "what did i save for"}
ReadLeads == {"recall", "what did i save for"}
TimeWords == {"time", "date", "now"}
CalcLeads == {"calculate"}
FollowWords == {"briefly", "why"}
FollowPhrases == {<<"explain", "this">>, <<"explain", "that">>, <<"in", "brief">>,
                  <<"how", "so">>}
Digits == {"0", "1", "2", "3", "4", "5", "6", "7", "8", "9"}
BareChars == Digits \cup {".", " ", "+", "-", "*", "/", "(", ")", "%"}

\* ^\s*(word), case-insensitive: the position of the lead-in word, 0 when the
\* text does not start with one of `words`
LeadIn(text, words) ==
    LET i == SkipSpaces(text, 1)
    IN  IF i <= Len(text) /\ Lower(text[i]) \in words THEN i ELSE 0

\* ^\s*(hi|hello|hey|hola|namaste|good\s*(morning|afternoon|evening)?)\b
_is_greeting(text) ==
    LET i == LeadIn(text, GreetWords)
    IN  /\ i > 0
        /\ \/ Boundary(text, i)
           \/ /\ Lower(text[i]) = "good"
              /\ WordAt(text, i + 1)
              /\ Lower(text[i + 1]) \in DayParts
              /\ Boundary(text, i + 1)

\* \b(explain (this|that)|in brief|briefly|why|how so)\b, searched
_is_followup(text) ==
    \E i \in 1..Len(text) :
        /\ Boundary(text, i - 1)
        /\ \/ Lower(text[i]) \in FollowWords /\ Boundary(text, i)
           \/ /\ i + 2 <= Len(text)
              /\ text[i + 1] = " "
              /\ <<Lower(text[i]), Lower(text[i + 2])>> \in FollowPhrases
              /\ Boundary(text, i + 2)

NoMatch == [matched |-> FALSE, key |-> <<>>, val |-> <<>>]

\* ^\s*(remember|save)\s+(.+?)\s*=\s*(.+?)\s*$ : \s+ takes as many spaces as
\* still let the rest match, the key is then the shortest text followed by
\* \s*= and a non-empty rest, the value is that rest without the spaces around
\* it (one space when the rest is nothing but spaces)
MatchRemember(user) ==
    LET i == LeadIn(user, WriteLeads)
        p == i + 1
        n == SkipSpaces(user, p) - p
        OkKey(ks, L) == LET e == SkipSpaces(user, ks + L)
                        IN  e < Len(user) /\ user[e] = "="
        Ls(s) == {L \in 1..(Len(user) - (p + s) + 1) : OkKey(p + s, L)}
        ss == {s \in 1..n : Ls(s) # {}}
    IN  IF i = 0 \/ ss = {} THEN NoMatch
        ELSE LET s == SetMax(ss)
                 ks == p + s
                 L == SetMin(Ls(s))
                 e == SkipSpaces(user, ks + L)
                 rest == SubSeq(user, e + 1, Len(user))
             IN  [matched |-> TRUE,
                  key |-> SubSeq(user, ks, ks + L - 1),
                  val |-> IF Strip(rest) = <<>> THEN <<" ">> ELSE Strip(rest)]

\* ^\s*(recall|what did i save for)\s+(.+?)\s*$
MatchRecall(user) ==
    LET i == LeadIn(user, ReadLeads)
        p == i + 1
        n == SkipSpaces(user, p) - p
        rest == SubSeq(user, p + n, Len(user))
    IN  IF i = 0 \/ n = 0 THEN NoMatch
        ELSE IF rest # <<>> THEN [matched |-> TRUE, key |-> Strip(rest), val |-> <<>>]
        ELSE IF n >= 2 THEN [matched |-> TRUE, key |-> <<" ">>, val |-> <<>>]
        ELSE NoMatch

\* \b(time|date|now)\b, searched
MatchTime(user) ==
    \E i \in 1..Len(user) :
        Lower(user[i]) \in TimeWords /\ Boundary(user, i - 1) /\ Boundary(user, i)

\* ^\s*calculate\s+(.+)$ : group 1, or None
CalcMatch(user) ==
    LET i == LeadIn(user, CalcLeads)
        p == i + 1
        n == SkipSpaces(user, p) - p
        rest == SubSeq(user, p + n, Len(user))
    IN  IF i = 0 \/ n = 0 THEN None
        ELSE IF rest # <<>> THEN Some(rest)
        ELSE IF n >= 2 THEN Some(<<" ">>)
        ELSE None

\* ^[\d\.\s\+\-\*\/\(\)\%]+$
BareMatch(user) == user # <<>> /\ \A i \in 1..Len(user) : user[i] \in BareChars

\* lines 116-119: the expression handed to calculator(), or None
CalcExpr(user) ==
    LET calc_match == CalcMatch(user)
    IN  IF ~calc_match.some /\ BareMatch(user) THEN Some(Strip(user)) ELSE calc_match


-----------------------------------------------------------------------------
(* agent.py: the follow-up helpers and the generative delegate. *)

\* a turn of the caller's history
Turn(role, content) == [role |-> role, content |-> content]

\* the last turn of `role` with non-empty content, scanning backward
LastOfRole(history, role) ==
    LET idx == {i \in 1..Len(history) :
                   history[i].role = role /\ history[i].content # <<>>}
    IN  IF idx = {} THEN None ELSE Some(history[SetMax(idx)].content)

_last_assistant_text(history) == LastOfRole(history, "assistant")

_last_user_text(history) == LastOfRole(history, "user")

\* a token standing for 158 characters of text without a "."
Filler == "<158 more characters>"
\* len() of a token and of a text
TokLen(c) == IF c = Filler THEN 158 ELSE Len(c)
RECURSIVE CharLen(_)
CharLen(s) == IF s = <<>> THEN 0 ELSE TokLen(Head(s)) + CharLen(Tail(s))

\* the longest previous answer that is repeated whole
ShortAnswerMax == 160

\* str.count(".")
CountDots(s) == Cardinality({i \in 1..Len(s) : s[i] = "."})

\* str.split(".")[0]
BeforeFirstDot(s) ==
    LET idx == {i \in 1..Len(s) : s[i] = "."}
    IN  IF idx = {} THEN s ELSE SubSeq(s, 1, SetMin(idx) - 1)

RepeatText == <<"I can explain - could you repeat the part you want clarified?">>
FollowsText == <<"Briefly: it follows from the previous result.">>

_local_brief_explanation(prev_answer, prev_user) ==
    IF prev_answer = <<>> THEN RepeatText
    ELSE IF CharLen(prev_answer) <= ShortAnswerMax /\ CountDots(prev_answer) <= 1
    THEN <<"In short: ">> \o prev_answer
    ELSE LET sent == Strip(BeforeFirstDot(prev_answer))
         IN  IF sent = <<>> THEN FollowsText
             ELSE IF ~Truthy(prev_user) THEN <<"Briefly: ">> \o sent \o <<".">>
             ELSE <<"Briefly: ">> \o sent
                      \o <<". (Related to your earlier message: '">>
                      \o prev_user.s \o <<"'.)">>

\* How the one call of the completion service ends: the agent has no client,
\* the call raises, the reply holds only white space, or it holds text.
DelegateOutcomes == {"unconfigured", "error", "blank", "text"}
AiText == <<"(generated text)">>

\* self._client.chat.completions.create(...) and .choices[0].message.content
ServiceCall(d) ==
    [raised |-> d = "error",
     value  |-> IF d = "text" THEN <<" ">> \o AiText ELSE <<" ">>]

Returned(x) == [raised |-> FALSE, value |-> x]
Raising == [raised |-> TRUE, value |-> None]

\* _openai_reply without its try/except: the service's error leaves it
_openai_reply_uncaught(d) ==
    IF d = "unconfigured" THEN Returned(None)
    ELSE LET resp == ServiceCall(d)
         IN  IF resp.raised THEN Raising
             ELSE Returned(Some(Strip(resp.value)))

\* ReasoningAgent._openai_reply: None without a client or when anything in
\* the try block raises, else the stripped content
_openai_reply(d) ==
    IF d = "unconfigured" THEN Returned(None)
    ELSE LET resp == ServiceCall(d)
         IN  IF resp.raised THEN Returned(None)
             ELSE Returned(Some(Strip(resp.value)))

-----------------------------------------------------------------------------
(* agent.py: ReasoningAgent.chat. *)

HelloText == <<"Hello! I remember this session. Ask me anything, or say 'help' to see capabilities.">>
SavedText == <<"Got it - I saved that.">>
DidntWorkText == <<"That expression didn't work for me.">>
CapabilitiesText == <<"I keep our chat in memory for this session. I can do quick math, tell the time, remember simple facts, and handle follow-ups.">>

\* what a call of chat() leaves: the AgentReply (with the rule that produced
\* it, and whether an exception left chat() instead) and the store
AgentReply(text, events, path) ==
    [raised |-> FALSE, text |-> text, events |-> events, path |-> path]

Propagated(path) ==
    [raised |-> TRUE, text |-> <<>>, events |-> <<>>, path |-> path]

Out(r, f) == [reply |-> r, facts |-> f]

NoReply == AgentReply(<<>>, <<>>, "none")

\* text = self._openai_reply(...) or local
DelegateOr(ai, local, path) ==
    IF ai.raised THEN Propagated(path)
    ELSE AgentReply(IF Truthy(ai.value) THEN ai.value.s ELSE local, <<>>, path)

\* lines 87-91
GreetingPath(user, history, d, f) ==
    Out(DelegateOr(_openai_reply(d), HelloText, "greeting"), f)

\* lines 95-99
RememberPath(m, f) ==
    LET r == remember(f, m.key, m.val)
    IN  Out(AgentReply(SavedText, <<r.result.event>>, "remember"), r.facts)

\* the read path looking the key up with a default that it stores
RecallPathStoringDefault(m, f) ==
    LET k == NormKey(m.key)
        g == IF k \in DOMAIN f THEN f ELSE dict_setitem(f, k, <<>>)
        r == recall(g, m.key)
    IN  Out(AgentReply(IF r.ok /\ k \in DOMAIN f THEN r.content ELSE NotSavedText,
                       <<r.event>>, "recall"), g)

\* lines 103-107
RecallPath(m, f) ==
    LET r == recall(f, m.key)
    IN  Out(AgentReply(IF r.ok THEN r.content ELSE NotSavedText, <<r.event>>,
                       "recall"), f)

\* lines 110-113
TimePath(f) ==
    LET r == clock
    IN  Out(AgentReply(<<"The time is ">> \o r.content \o <<".">>, <<r.event>>,
                       "time"), f)

\* lines 120-123
CalculatorReply(r) ==
    AgentReply(IF r.ok THEN r.content ELSE DidntWorkText, <<r.event>>, "calculator")

CalculatorPath(expr, e, f) == Out(CalculatorReply(calculator(expr, e)), f)

\* lines 126-132
FollowupPath(user, history, d, f) ==
    LET last == _last_assistant_text(history)
        prev_answer == IF Truthy(last) THEN last.s ELSE <<>>
        prev_user == _last_user_text(history)
    IN  Out(DelegateOr(_openai_reply(d),
                       _local_brief_explanation(prev_answer, prev_user),
                       "followup"), f)

\* lines 135-145
FallbackPath(user, history, d, f) ==
    Out(DelegateOr(_openai_reply(d), CapabilitiesText, "fallback"), f)

\* chat() with the calculator rule tried before the time rule
ChatReplyCalculatorFirst(user, history, d, e, f) ==
    IF _is_greeting(user) THEN GreetingPath(user, history, d, f)
    ELSE IF MatchRemember(user).matched THEN RememberPath(MatchRemember(user), f)
    ELSE IF MatchRecall(user).matched THEN RecallPath(MatchRecall(user), f)
    ELSE IF Truthy(CalcExpr(user)) THEN CalculatorPath(CalcExpr(user).s, e, f)
    ELSE IF MatchTime(user) THEN TimePath(f)
    ELSE IF _is_followup(user) THEN FollowupPath(user, history, d, f)
    ELSE FallbackPath(user, history, d, f)

\* ReasoningAgent.chat on a store f: the reply, the rule taken and the store left.
\* d is how the delegate's call ends and e how the evaluation of the extracted
\* expression ends, should the rule taken make either.
ChatReply(user, history, d, e, f) ==
    IF _is_greeting(user) THEN GreetingPath(user, history, d, f)
    ELSE IF MatchRemember(user).matched THEN RememberPath(MatchRemember(user), f)
    ELSE IF MatchRecall(user).matched THEN RecallPath(MatchRecall(user), f)
    ELSE IF MatchTime(user) THEN TimePath(f)
    ELSE IF Truthy(CalcExpr(user)) THEN CalculatorPath(CalcExpr(user).s, e, f)
    ELSE IF _is_followup(user) THEN FollowupPath(user, history, d, f)
    ELSE FallbackPath(user, history, d, f)


-----------------------------------------------------------------------------
(* server.py: POST /chat hands the message and the client's history to the  *)
(* one AGENT of the process.                                                *)

NoReq == [user |-> <<>>, history |-> <<>>, delegate |-> "unconfigured",
          eval |-> [raised |-> FALSE, text |-> <<>>]]

\* how _eval ends on the expressions the chat specifications submit
EvalOutcomes == {[raised |-> FALSE, text |-> <<"2.0">>],
                 [raised |-> TRUE, text |-> <<"float division by zero">>]}

IdleChat == facts = <<>> /\ req = NoReq /\ reply = NoReply
IdleFacts == call = <<"none">> /\ ret = NoResult /\ lastRaw = <<>>
IdleCalc == stack = <<>> /\ mode = "idle" /\ val = "none" /\ cres = NoResult
            /\ pure = TRUE /\ divz = FALSE
IdleConc == pc = <<>> /\ targ = <<>> /\ tres = <<>> /\ seen = <<>> /\ stored = <<>>

\* one request served by AGENT.chat
Chat(user, history, d, e) ==
    LET r == ChatReply(user, history, d, e, facts)
    IN  /\ req' = [user |-> user, history |-> history, delegate |-> d, eval |-> e]
        /\ facts' = r.facts
        /\ reply' = r.reply
        /\ UNCHANGED <<factsVars, calcVars, concVars>>

-----------------------------------------------------------------------------
(* SpecRoute: one request with any utterance of about MaxLen tokens. *)

Alphabet == {" ", "=", "Hi", "remember", "Recall", "Time", "calculate", "why", "1"}
\* every utterance of up to MaxLen tokens, and every longer one by a token that
\* starts as the write rule asks (its shortest match has five tokens)
Utterances ==
    SeqsUpTo(Alphabet, MaxLen)
        \cup {<<"remember", " ">> \o rest : rest \in SeqsUpTo(Alphabet, MaxLen - 1)}

SomeHistory == <<Turn("user", <<"1", "+", "1">>), Turn("assistant", <<"2.0">>)>>

\* what surrounds the utterance: the store, the history, the outcomes
RouteEnvs ==
    {[facts |-> <<>>, history |-> <<>>, delegate |-> "unconfigured",
      eval |-> [raised |-> FALSE, text |-> <<"2.0">>]],
     [facts |-> dict_setitem(<<>>, <<"1">>, <<"Hi">>), history |-> SomeHistory,
      delegate |-> "text",
      eval |-> [raised |-> TRUE, text |-> <<"float division by zero">>]]}

InitRoute ==
    /\ facts \in {env.facts : env \in RouteEnvs}
    /\ req = NoReq /\ reply = NoReply
    /\ IdleFacts /\ IdleCalc /\ IdleConc

ChatOnce ==
    /\ reply = NoReply
    /\ \E user \in Utterances, env \in RouteEnvs :
           /\ env.facts = facts
           /\ Chat(user, env.history, env.delegate, env.eval)

NextRoute == ChatOnce

SpecRoute == InitRoute /\ [][NextRoute]_vars


-----------------------------------------------------------------------------
(* Spec: a session of requests against the one agent. *)

SessionKeys == SeqsUpTo({"k", "K"}, MaxStr) \ {<<>>}
SessionVals == SeqsUpTo({" ", "v"}, MaxStr) \ {<<>>}

WriteUtterances ==
    {<<"remember", " ">> \o k \o <<"=">> \o v : k \in SessionKeys, v \in SessionVals}
ReadUtterances ==
    {<<"Recall", " ">> \o k : k \in SessionKeys} \cup {<<"recall", " ", "j">>}
CalcUtterances == {<<"calculate", " ", "1", "/", "0">>, <<"1", "+", "1">>}
DelegateUtterances == {<<"Hi">>, <<"why">>, <<"k">>, <<" ">>}
SessionHistories == {<<>>, SomeHistory}

Input(user, history, d, e) ==
    [user |-> user, history |-> history, delegate |-> d, eval |-> e]

SessionInputs ==
    {Input(u, <<>>, "unconfigured", NoReq.eval) :
        u \in WriteUtterances \cup ReadUtterances \cup {<<"Time">>}}
    \cup {Input(u, <<>>, "unconfigured", e) : u \in CalcUtterances, e \in EvalOutcomes}
    \cup {Input(u, h, d, NoReq.eval) :
             u \in DelegateUtterances, h \in SessionHistories, d \in DelegateOutcomes}

Init == IdleChat /\ IdleFacts /\ IdleCalc /\ IdleConc

ChatTurn == \E i \in SessionInputs : Chat(i.user, i.history, i.delegate, i.eval)

Next == ChatTurn

Spec == Init /\ [][Next]_vars

-----------------------------------------------------------------------------
(* SpecFacts: calls of FactsStore.remember and FactsStore.recall on one store. *)

RawKeys == SeqsUpTo({" ", "k", "K"}, MaxStr)
RawVals == SeqsUpTo({" ", "v"}, MaxStr)

Remember(key, value) ==
    LET r == remember(facts, key, value)
    IN  /\ facts' = r.facts
        /\ ret' = r.result
        /\ call' = <<"remember", key, value>>
        /\ lastRaw' = dict_setitem(lastRaw, NormKey(key), value)
        /\ UNCHANGED <<req, reply, calcVars, concVars>>

Recall(key) ==
    /\ ret' = recall(facts, key)
    /\ call' = <<"recall", key>>
    /\ UNCHANGED <<facts, lastRaw, req, reply, calcVars, concVars>>

NextFacts ==
    \/ \E key \in RawKeys, value \in RawVals : Remember(key, value)
    \/ \E key \in RawKeys : Recall(key)

SpecFacts == Init /\ [][NextFacts]_vars

-----------------------------------------------------------------------------
(* SpecCalc: one "calculate <expression>" request; the expression is any tree
   whose _eval calls nest at most MaxDepth deep below the root, visited in
   the order _eval visits it. *)

CalcUtterance == <<"calculate", " ", "(expression)">>

\* ast.Constant values: int or float literals by class, an int too large for
\* float(), the bool constants, and any other constant (str, None, 1j, ...)
ConstantKinds == {"zero", "fin", "inf", "bigint", "True", "False", "str"}
\* ast.BinOp operators outside _ALLOWED
OtherBinary == {"BitXor", "LShift", "MatMult"}
UnaryKinds == {"USub", "UAdd", "Not", "Invert"}
\* nodes that are not Constant, BinOp or UnaryOp
OtherNodes == {"Name", "Call", "Compare", "BoolOp", "Subscript", "Attribute",
               "List", "IfExp"}

Frame(op, left) == [op |-> op, left |-> left]

Ended(how, v, dz) == [stack |-> <<>>, how |-> how, val |-> v, divz |-> dz]

\* an _eval call returned v to the calls in st: each binary frame with both
\* operands and each unary frame applies its operator and returns in turn
RECURSIVE Resume(_, _)
Resume(st, v) ==
    IF st = <<>> THEN {Ended("returned", v, FALSE)}
    ELSE LET top == st[Len(st)]
             rest == SubSeq(st, 1, Len(st) - 1)
         IN  IF top.op = "USub" THEN Resume(rest, Neg(v))
             ELSE IF top.left = "none"
             THEN {[stack |-> Append(rest, Frame(top.op, v)), how |-> "open",
                    val |-> "none", divz |-> FALSE]}
             ELSE LET dz == top.op \in Dividing /\ v = "zero"
                  IN  UNION {IF o \in Exceptions THEN {Ended("raised", o, dz)}
                             ELSE {[r EXCEPT !.divz = r.divz \/ dz] :
                                       r \in Resume(rest, o)} :
                             o \in Apply(top.op, top.left, v)}

\* how _eval ended, as calculator() sees it, lines 70-76
EvalEnd(how, v) ==
    IF how = "raised" THEN [raised |-> TRUE, text |-> <<v>>]
    ELSE [raised |-> FALSE, text |-> StrOf(v)]

\* the walk goes on, or calculator() returns
Land(r) ==
    /\ stack' = r.stack
    /\ divz' = (divz \/ r.divz)
    /\ IF r.how = "open"
       THEN mode' = "visit" /\ UNCHANGED <<val, cres>>
       ELSE /\ mode' = "done"
            /\ val' = r.val
            /\ cres' = calculator(CalcExpr(req.user).s, EvalEnd(r.how, r.val))

CalcFrame == UNCHANGED <<facts, req, reply, factsVars, concVars>>

\* chat() lines 116-121 and ast.parse, line 70
Parse ==
    /\ mode = "idle"
    /\ Truthy(CalcExpr(CalcUtterance))
    /\ req' = [NoReq EXCEPT !.user = CalcUtterance]
    /\ \E ok \in BOOLEAN :
           IF ok THEN mode' = "visit" /\ UNCHANGED cres
           ELSE /\ mode' = "done"
                /\ cres' = calculator(CalcExpr(CalcUtterance).s,
                                      EvalEnd("raised", "invalid syntax"))
    /\ UNCHANGED <<facts, reply, stack, val, pure, divz, factsVars, concVars>>

\* lines 52-55
Constant(c) ==
    /\ mode = "visit"
    /\ pure' = (pure /\ c \in {"zero", "fin", "inf", "bigint"})
    /\ CASE c = "str" ->
              Land(Ended("raised", "Only numbers are allowed.", FALSE))
         [] c = "bigint" ->
              Land(Ended("raised", "int too large to convert to float", FALSE))
         [] OTHER ->
              LET v == CASE c = "True" -> "fin" [] c = "False" -> "zero"
                         [] OTHER -> c
              IN  \E r \in Resume(stack, v) : Land(r)
    /\ CalcFrame

\* lines 56-60
BinOp(op) ==
    /\ mode = "visit"
    /\ pure' = (pure /\ op \in BinaryAllowed)
    /\ IF op \notin _ALLOWED
       THEN Land(Ended("raised", "Operation not allowed.", FALSE))
       ELSE /\ Len(stack) < MaxDepth
            /\ stack' = Append(stack, Frame(op, "none"))
            /\ UNCHANGED <<mode, val, cres, divz>>
    /\ CalcFrame

\* lines 61-65
UnaryOp(op) ==
    /\ mode = "visit"
    /\ pure' = (pure /\ op = "USub")
    /\ IF op \notin _ALLOWED
       THEN Land(Ended("raised", "Operation not allowed.", FALSE))
       ELSE /\ Len(stack) < MaxDepth
            /\ stack' = Append(stack, Frame(op, "none"))
            /\ UNCHANGED <<mode, val, cres, divz>>
    /\ CalcFrame

\* line 66
OtherNode(kind) ==
    /\ mode = "visit"
    /\ pure' = FALSE
    /\ Land(Ended("raised", "Invalid expression.", FALSE))
    /\ CalcFrame

\* chat() lines 121-123
CalcReply ==
    /\ mode = "done"
    /\ mode' = "replied"
    /\ reply' = CalculatorReply(cres)
    /\ UNCHANGED <<facts, req, stack, val, cres, pure, divz, factsVars, concVars>>

NextCalc ==
    \/ Parse
    \/ \E c \in ConstantKinds : Constant(c)
    \/ \E op \in BinaryAllowed \cup OtherBinary : BinOp(op)
    \/ \E op \in UnaryKinds : UnaryOp(op)
    \/ \E kind \in OtherNodes : OtherNode(kind)
    \/ CalcReply

SpecCalc == Init /\ [][NextCalc]_vars

-----------------------------------------------------------------------------
(* SpecFollow: one follow-up request over any history of up to MaxHist
   turns. *)

FollowUtterance == <<"why">>

\* previous answers: none, short, one sentence, two sentences, an empty first
\* sentence, 160 characters, 161 characters
AnswerTexts == {<<>>, <<"x">>, <<"x", ".">>, <<"x", ".", "y", ".">>,
                <<".", "x", ".">>, <<Filler, "x", "y">>, <<Filler, "x", "y", "z">>}
UserTexts == {<<>>, <<"q">>, FollowUtterance}

FollowTurns == {Turn("assistant", c) : c \in AnswerTexts}
                   \cup {Turn("user", c) : c \in UserTexts}
Histories == SeqsUpTo(FollowTurns, MaxHist)

FollowOnce ==
    /\ reply = NoReply
    /\ \E history \in Histories, d \in DelegateOutcomes :
           Chat(FollowUtterance, history, d, NoReq.eval)

NextFollow == FollowOnce

SpecFollow == Init /\ [][NextFollow]_vars

-----------------------------------------------------------------------------
(* SpecConc: NThreads requests at a time in AGENT.chat (server.py runs the
   handler on a thread pool), each on the memory-write or the memory-read
   rule.  A dict store and a dict lookup are each one step. *)

Threads == 1..NThreads
ConcKeys == {<<"K">>, <<"j">>}
ConcVals == {<<"v">>, <<"w">>}

NoCall == [op |-> "none"]
KeyErrorResult == [raised |-> "KeyError"]

\* what a sequential store answers a lookup with
Lookup(s, k) == IF k \in DOMAIN s THEN Some(s[k]) ELSE None

InitConc ==
    /\ IdleChat /\ IdleFacts /\ IdleCalc
    /\ pc = [t \in Threads |-> "idle"]
    /\ targ = [t \in Threads |-> NoCall]
    /\ tres = [t \in Threads |-> NoResult]
    /\ seen = [t \in Threads |-> None]
    /\ stored = <<>>

ConcFrame == UNCHANGED <<req, reply, factsVars, calcVars>>

\* chat() line 97 calls remember
CallRemember(t, key, value) ==
    /\ pc[t] = "idle"
    /\ pc' = [pc EXCEPT ![t] = "store"]
    /\ targ' = [targ EXCEPT ![t] = [op |-> "remember", key |-> key, value |-> value]]
    /\ UNCHANGED <<facts, tres, seen, stored>>
    /\ ConcFrame

\* remember, lines 28-32: the dict store of line 30 is one step
StoreStep(t) ==
    /\ pc[t] = "store"
    /\ LET r == remember(facts, targ[t].key, targ[t].value)
       IN  /\ facts' = r.facts
           /\ tres' = [tres EXCEPT ![t] = r.result]
    /\ stored' = (NormKey(targ[t].key) :> Strip(targ[t].value)) @@ stored
    /\ pc' = [pc EXCEPT ![t] = "done"]
    /\ UNCHANGED <<targ, seen>>
    /\ ConcFrame

\* chat() line 105 calls recall
CallRecall(t, key) ==
    /\ pc[t] = "idle"
    /\ pc' = [pc EXCEPT ![t] = "check"]
    /\ targ' = [targ EXCEPT ![t] = [op |-> "recall", key |-> key]]
    /\ UNCHANGED <<facts, tres, seen, stored>>
    /\ ConcFrame

\* recall, lines 35-38: the membership test, and the return when it fails
CheckStep(t) ==
    /\ pc[t] = "check"
    /\ IF NormKey(targ[t].key) \notin DOMAIN facts
       THEN /\ tres' = [tres EXCEPT ![t] = recall(facts, targ[t].key)]
            /\ seen' = [seen EXCEPT ![t] = Lookup(stored, NormKey(targ[t].key))]
            /\ pc' = [pc EXCEPT ![t] = "done"]
       ELSE /\ pc' = [pc EXCEPT ![t] = "read"]
            /\ UNCHANGED <<tres, seen>>
    /\ UNCHANGED <<facts, targ, stored>>
    /\ ConcFrame

\* recall, lines 39-41: the lookup, which raises KeyError on a missing key
ReadStep(t) ==
    /\ pc[t] = "read"
    /\ tres' = [tres EXCEPT ![t] = IF NormKey(targ[t].key) \in DOMAIN facts
                                   THEN recall(facts, targ[t].key)
                                   ELSE KeyErrorResult]
    /\ seen' = [seen EXCEPT ![t] = Lookup(stored, NormKey(targ[t].key))]
    /\ pc' = [pc EXCEPT ![t] = "done"]
    /\ UNCHANGED <<facts, targ, stored>>
    /\ ConcFrame

\* the handler returns its response, server.py lines 42-49
Respond(t) ==
    /\ pc[t] = "done"
    /\ pc' = [pc EXCEPT ![t] = "idle"]
    /\ targ' = [targ EXCEPT ![t] = NoCall]
    /\ tres' = [tres EXCEPT ![t] = NoResult]
    /\ seen' = [seen EXCEPT ![t] = None]
    /\ UNCHANGED <<facts, stored>>
    /\ ConcFrame

NextConc ==
    \E t \in Threads :
        \/ \E key \in ConcKeys, value \in ConcVals : CallRemember(t, key, value)
        \/ StoreStep(t)
        \/ \E key \in ConcKeys : CallRecall(t, key)
        \/ CheckStep(t)
        \/ ReadStep(t)
        \/ Respond(t)

SpecConc == InitConc /\ [][NextConc]_vars

-----------------------------------------------------------------------------
(* Properties of the routing (SpecRoute). *)

RuleOrder == <<"greeting", "remember", "recall", "time", "calculator", "followup",
               "fallback">>

\* the condition of each rule, as agent.py writes it; the arithmetic rule's is
\* that either of its regular expressions draws a non-empty expression (lines
\* 116-120)
PatternMatches(rule, user) ==
    CASE rule = "greeting" -> _is_greeting(user)
      [] rule = "remember" -> MatchRemember(user).matched
      [] rule = "recall" -> MatchRecall(user).matched
      [] rule = "time" -> MatchTime(user)
      [] rule = "calculator" -> Truthy(CalcExpr(user))
      [] rule = "followup" -> _is_followup(user)
      [] OTHER -> TRUE

Served == reply.path # "none"

\* C1: the rule chat() takes is the first of the fixed order whose condition
\* the utterance meets, whatever the store, the history and the delegate are,
\* and the calculator rule is never taken for an utterance that holds the word
\* "time", "date" or "now".
C1_FirstMatchWins ==
    Served =>
        /\ reply.path = RuleOrder[SetMin({i \in 1..7 :
                                    PatternMatches(RuleOrder[i], req.user)})]
        /\ reply.path = "calculator" => ~MatchTime(req.user)

\* C1's case: an utterance that the time rule takes from the calculator rule,
\* served by an agent whose store is not empty
C1_Witness ==
    reply.path = "time" /\ CalcMatch(req.user).some /\ facts # <<>>

\* C10 as stated: no utterance matches more than one of the rules 2 to 5
\* (memory write, memory read, time, arithmetic).
C10_Rules2To5Exclusive ==
    Served =>
        Cardinality({i \in 2..5 : PatternMatches(RuleOrder[i], req.user)}) <= 1

\* C10 as amended: no utterance matches more than one of the rules 2, 3 and 5
\* (memory write, memory read, arithmetic); the time rule can match together
\* with each of them, and then the fixed order decides.
C10_WriteReadArithmeticExclusive ==
    Served =>
        Cardinality({i \in {2, 3, 5} : PatternMatches(RuleOrder[i], req.user)}) <= 1

\* C10's case: an utterance of the read rule that the time rule matches too
C10_Witness ==
    /\ reply.path = "recall"
    /\ MatchTime(req.user)
    /\ ~MatchRemember(req.user).matched
    /\ ~PatternMatches("calculator", req.user)

-----------------------------------------------------------------------------
(* Properties of a session (Spec). *)

\* C4: the text of every reply chat() returns is non-empty.
C4_ReplyTextNonEmpty == Served /\ ~reply.raised => reply.text # <<>>

\* C5: only a request taking the memory-write rule changes the store; a recall
\* of a key that was never written reports not-found and adds nothing.
C5_OnlyRememberWrites ==
    [][/\ reply'.path # "remember" => facts' = facts
       /\ (reply'.path = "recall" /\ NormKey(MatchRecall(req'.user).key) \notin DOMAIN facts)
            => /\ facts' = facts
               /\ ~reply'.events[1].ok
               /\ reply'.events[1].output = <<"Not found.">>
               /\ reply'.text = NotSavedText]_chatVars

\* C5's case: a recall that misses while the store holds other keys
C5_Witness ==
    /\ reply.path = "recall"
    /\ ~reply.events[1].ok
    /\ facts # <<>>
    /\ reply.events[1].input \notin DOMAIN facts

NoDelegateText == req.delegate \in {"unconfigured", "error", "blank"}

\* C7: chat() always returns a reply, whatever the delegate and the tools do,
\* and with no text from the delegate the greeting, follow-up and fallback
\* rules answer with their local text.
C7_NeverPropagates ==
    Served =>
        /\ ~reply.raised
        /\ NoDelegateText =>
              /\ reply.path = "greeting" => reply.text = HelloText
              /\ reply.path = "fallback" => reply.text = CapabilitiesText
              /\ reply.path = "followup" =>
                     \/ reply.text \in {RepeatText, FollowsText}
                     \/ Head(reply.text) \in {"In short: ", "Briefly: "}

\* C7's case: the service raised while the follow-up rule was being served
C7_Witness ==
    /\ req.delegate = "error"
    /\ reply.path = "followup"
    /\ ~reply.raised
    /\ Head(reply.text) = "In short: "

-----------------------------------------------------------------------------
(* Properties of the store (SpecFacts). *)

Recalled == call[1] = "recall" /\ NormKey(call[2]) \in DOMAIN lastRaw

\* C2 as stated: a recall of a key returns the value v of the last remember
\* whose key is equal to it after trim and lowercase.
C2_RecallReturnsLastValue ==
    Recalled => ret.ok /\ ret.content = lastRaw[NormKey(call[2])]

\* C2 as amended: it returns that v without the white space around it.
C2_RecallReturnsLastValueStripped ==
    Recalled => ret.ok /\ ret.content = Strip(lastRaw[NormKey(call[2])])

\* C2's case: a value recalled under a key written in another case
C2_Witness ==
    /\ call = <<"recall", <<"K">>>>
    /\ ret.ok
    /\ ret.content = <<"v">>
    /\ ret.event.input = <<"k">>

-----------------------------------------------------------------------------
(* Properties of the calculator (SpecCalc). *)

CalcReturned == mode \in {"done", "replied"}

\* C3: calculator() succeeds only on trees made of numeric literals, the
\* binary operators + - * / % // ** and unary minus; a tree holding any other
\* construct (a named constant among them) gets a failure, never a value.
C3_OnlyWhitelistedSucceed == CalcReturned /\ ~pure => ~cres.ok

\* what C6 asks of an evaluation that divided by zero: calculator() returned
\* a failure, with a failed event, and chat() answers with the fixed text
DivisionByZeroFails ==
    divz => /\ CalcReturned
            /\ ~cres.ok /\ ~cres.event.ok
            /\ mode = "replied" => ~reply.raised /\ reply.text = DidntWorkText

\* C6 as stated: a division by zero through /, % or // ends in a failure and
\* the fixed failure text, and calculator() never returns an infinite or NaN
\* value as a success.
C6_NoInfiniteOrNanSuccess ==
    /\ DivisionByZeroFails
    /\ CalcReturned /\ cres.ok => val \notin {"inf", "nan"}

\* C6, amended: a division by zero through /, % or // ends in a failure and
\* the fixed failure text, so no evaluation that divided by zero returns an
\* infinite or NaN value as a success.
C6_DivisionByZeroFails ==
    /\ DivisionByZeroFails
    /\ divz /\ CalcReturned => val \in Exceptions

C6_Witness == divz /\ mode = "replied" /\ val = "ZeroDivisionError"

-----------------------------------------------------------------------------
(* Properties of the follow-up rule (SpecFollow). *)

\* the turns of `role` that hold text
TurnsOf(history, role) ==
    {i \in 1..Len(history) : history[i].role = role /\ history[i].content # <<>>}

\* C9: with no text from the delegate the follow-up reply is a function of the
\* history: prevAnswer is the last assistant turn and prevUser the last user
\* turn before that assistant turn; no prevAnswer gives the request to repeat,
\* a short prevAnswer "In short: " and the answer, any other "Briefly: " and
\* the first sentence (the generic statement when that is empty), followed by
\* the quoted prevUser when there is one.
C9_FollowupFromHistory ==
    reply.path = "followup" /\ NoDelegateText =>
        LET h == req.history
            a == TurnsOf(h, "assistant")
        IN  IF a = {} THEN reply.text = RepeatText
            ELSE LET prevAnswer == h[SetMax(a)].content
                     u == {i \in TurnsOf(h, "user") : i < SetMax(a)}
                     sent == Strip(BeforeFirstDot(prevAnswer))
                 IN  IF CharLen(prevAnswer) <= ShortAnswerMax
                            /\ CountDots(prevAnswer) <= 1
                     THEN reply.text = <<"In short: ">> \o prevAnswer
                     ELSE IF sent = <<>>
                     THEN Head(reply.text) = Head(FollowsText)
                     ELSE IF u = {}
                     THEN reply.text = <<"Briefly: ">> \o sent \o <<".">>
                     ELSE reply.text = <<"Briefly: ">> \o sent
                              \o <<". (Related to your earlier message: '">>
                              \o h[SetMax(u)].content \o <<"'.)">>

-----------------------------------------------------------------------------
(* Properties of concurrent requests (SpecConc). *)

\* C8: concurrent remember and recall calls are equivalent to the sequential
\* order in which their dict operations take effect: the store holds what that
\* order leaves (no write is lost or seen in part) and every recall returns
\* what the sequential store answered, not-found or the value last written
\* for the normalised key.
C8_Linearizable ==
    /\ facts = stored
    /\ \A t \in DOMAIN pc :
           pc[t] = "done" /\ targ[t].op = "recall" =>
               /\ tres[t] # KeyErrorResult
               /\ tres[t].ok = seen[t].some
               /\ tres[t].ok => tres[t].content = seen[t].s

\* C8's case: a recall returned a value while the remember that wrote it was
\* still in its handler
C8_Witness ==
    \E t, u \in DOMAIN pc :
        /\ t # u
        /\ pc[t] = "done" /\ targ[t].op = "recall" /\ tres[t].ok
        /\ pc[u] = "done" /\ targ[u].op = "remember"
        /\ NormKey(targ[u].key) = NormKey(targ[t].key)
        /\ tres[t].content = Strip(targ[u].value)

=============================================================================
